---- MODULE Spec2Model ----
(***************************************************************************)
(* Epoch settlement engine of the price relay server (server/index.js).    *)
(*                                                                         *)
(* The server is a single-threaded Node.js process: every callback (the    *)
(* 50 ms epoch timer, the upstream 'message' handler, the 'connection'     *)
(* handler) runs to completion before the next one starts, so each         *)
(* callback is one action.  Wall-clock time is the variable now; all       *)
(* Date.now() reads of one callback see the same instant.                  *)
(*                                                                         *)
(* JavaScript numbers are records [k, v]: k is "null", "num", "nan",       *)
(* "inf" or "ninf"; for k = "num" the value is v hundredths (fixed point). *)
(***************************************************************************)
EXTENDS Integers, Sequences, FiniteSets, TLC

VARIABLES
    now,                    \* Date.now(), in ms
    currentPrice,           \* index.js:15
    lastPriceTimestamp,     \* index.js:16
    lastTickPriceInEpoch,   \* index.js:17
    currentEpoch,           \* index.js:20
    epochStartPrice,        \* index.js:21
    lastEpochEndPrice,      \* index.js:22
    epochHistory,           \* index.js:23
    priceHistory,           \* index.js:27
    clients,                \* wss.clients (all OPEN)
    sent,                   \* messages sent by the callback that ran last
    produced,               \* history: every EpochResult ever created, in order
    settledIn,              \* history: wall-clock epoch index of the last settlement, -1 if none
    rejected,               \* history: the callback that ran last was the 'message' handler
                            \* and it discarded the price it computed
    socks,                  \* readyState of every upstream socket created so far, in order
    pythWs,                 \* index.js:11, an index into socks, 0 for null
    reconnectTimeouts,      \* number of pending setTimeout(connectToPyth, 3000) timers
    crashed,                \* the process was ended by an exception no handler caught
    userStore,              \* the frontend's userStore.ts: balance, currentBet
    gameStore,              \* the frontend's gameStore.ts: the fields a bet's resolution writes
    hookRefs,               \* useBinanceWebSocket.ts:32-52, pendingEpochEndRef and
                            \* pendingEpochStartRef
    animationFrames,        \* callbacks queued by requestAnimationFrame, in order
    received,               \* history: the instant and the messages of the server callback
                            \* whose messages the frontend took in last
    betRound,               \* history: the server's epoch index when currentBet was placed
    resolutions,            \* history: every bet resolved so far, in order
    hookWs                  \* useBinanceWebSocket.ts:26-27, wsRef and reconnectTimeoutRef, with
                            \* the sockets and timers the hook created

engineVars == <<currentPrice, lastPriceTimestamp, lastTickPriceInEpoch, currentEpoch,
                epochStartPrice, lastEpochEndPrice, epochHistory, priceHistory>>

vars == <<now, currentPrice, lastPriceTimestamp, lastTickPriceInEpoch, currentEpoch,
          epochStartPrice, lastEpochEndPrice, epochHistory, priceHistory, clients,
          sent, produced, settledIn, rejected, socks, pythWs, reconnectTimeouts, crashed,
          userStore, gameStore, hookRefs, animationFrames, received, betRound, resolutions,
          hookWs>>

adapterVars == <<socks, pythWs, reconnectTimeouts>>

frontendVars == <<userStore, gameStore, hookRefs, animationFrames, received, betRound,
                  resolutions, hookWs>>

----------------------------------------------------------------------------
(* Program constants *)

EPOCH_DURATION == 10000

MAX_EPOCH_HISTORY == 20

MAX_PRICE_HISTORY == 600
INITIAL_BALANCE == 100

(* Bounds of the model *)

MaxTicks == 2

NumClients == 1

\* upstream sockets the adapter creates at most
MaxSockets == 3

\* the values of count getEpochTimestamps is examined for, 0..MaxCount
MaxCount == 3

\* bets the user places at most without one being paid out
MaxBets == 2

\* the balance up to which payouts are credited
MaxBalance == 110

\* sockets the hook creates at most
MaxHookSockets == 3

\* a server that has run for a while: the price points it took in so far
\* and the epochs it settled so far
PastTicks == 599
PastEpochs == 19

\* the instants at which callbacks run: four epoch boundaries and, inside
\* the first epoch, an instant that is off the 100 ms time-message grid
Instants == {0, 5050, 10000, 20000, 30000}

ClientIds == 1..NumClients

----------------------------------------------------------------------------
(* JavaScript values *)

Null == [k |-> "null", v |-> 0]

NaN == [k |-> "nan", v |-> 0]

PosInf == [k |-> "inf", v |-> 0]

NegInf == [k |-> "ninf", v |-> 0]

Num(h) == [k |-> "num", v |-> h]

\* the number n (an integer) as a value
FromInt(n) == Num(n * 100)

IsNaN(x) == x.k = "nan"

\* Number(x) for the values that reach a comparison: null converts to 0
ToNumber(x) == IF x.k = "null" THEN Num(0) ELSE x

\* x > y on JavaScript numbers
Gt(x, y) ==
    LET a == ToNumber(x)
        b == ToNumber(y)
    IN  IF a.k = "nan" \/ b.k = "nan" THEN FALSE
        ELSE IF a.k = "inf" THEN b.k # "inf"
        ELSE IF a.k = "ninf" THEN FALSE
        ELSE IF b.k = "inf" THEN FALSE
        ELSE IF b.k = "ninf" THEN TRUE
        ELSE a.v > b.v

\* truthiness of a number or null
Truthy(x) == ~(x.k = "null" \/ x.k = "nan" \/ (x.k = "num" /\ x.v = 0))

\* x || y
OrElse(x, y) == IF Truthy(x) THEN x ELSE y

\* x * y on JavaScript numbers
Mul(x, y) ==
    LET sgn(a) == IF a.k = "inf" THEN 1 ELSE IF a.k = "ninf" THEN -1
                  ELSE IF a.v > 0 THEN 1 ELSE IF a.v < 0 THEN -1 ELSE 0
    IN  IF x.k = "nan" \/ y.k = "nan" THEN NaN
        ELSE IF x.k = "num" /\ y.k = "num" THEN Num((x.v * y.v) \div 100)
        ELSE IF sgn(x) * sgn(y) = 0 THEN NaN
        ELSE IF sgn(x) * sgn(y) > 0 THEN PosInf
        ELSE NegInf

DigitValue(c) ==
    CASE c = "0" -> 0 [] c = "1" -> 1 [] c = "2" -> 2 [] c = "3" -> 3 [] c = "4" -> 4
      [] c = "5" -> 5 [] c = "6" -> 6 [] c = "7" -> 7 [] c = "8" -> 8 [] c = "9" -> 9

IsDigit(c) == c \in {"0", "1", "2", "3", "4", "5", "6", "7", "8", "9"}

RECURSIVE ParseDigits(_, _)
\* the value of the longest prefix of digits of s, acc being the value read so far
ParseDigits(s, acc) ==
    IF s = <<>> \/ ~IsDigit(Head(s)) THEN acc
    ELSE ParseDigits(Tail(s), acc * 10 + DigitValue(Head(s)))

\* parseInt(s), s a sequence of characters: an optional sign, then the longest
\* prefix of digits; NaN when there is no digit
ParseInt(s) ==
    LET signed == s # <<>> /\ Head(s) \in {"-", "+"}
        body == IF signed THEN Tail(s) ELSE s
    IN  IF body = <<>> \/ ~IsDigit(Head(body)) THEN NaN
        ELSE IF signed /\ Head(s) = "-" THEN FromInt(0 - ParseDigits(body, 0))
        ELSE FromInt(ParseDigits(body, 0))

RECURSIVE Exp10(_)
Exp10(n) == IF n <= 0 THEN 1 ELSE 10 * Exp10(n - 1)

\* Math.pow(10, x) for an integer or NaN x.  A double overflows to Infinity
\* above 10^308 and underflows to 0 below 10^-323; exponents -2..6 are exact
\* in hundredths (the inputs use no exponent between -323 and -3).
Pow10(x) ==
    IF x.k # "num" THEN NaN
    ELSE LET e == x.v \div 100
         IN  IF e > 308 THEN PosInf
             ELSE IF e < -2 THEN Num(0)
             ELSE Num(Exp10(e + 2))

----------------------------------------------------------------------------
(* Epoch clock *)

GetEpochNumber == now \div EPOCH_DURATION

\* variant of GetTimeRemaining: 0 on an epoch boundary
GetTimeRemainingFromZero == (EPOCH_DURATION - (now % EPOCH_DURATION)) % EPOCH_DURATION

GetTimeRemaining == EPOCH_DURATION - (now % EPOCH_DURATION)

RECURSIVE PastEpochEnds(_, _, _)
\* the while loop of getEpochTimestamps: unshift the end of every past epoch
\* down to the oldest retained price point
PastEpochEnds(pastEpochStart, oldestTimestamp, timestamps) ==
    IF pastEpochStart >= oldestTimestamp - EPOCH_DURATION
    THEN PastEpochEnds(pastEpochStart - EPOCH_DURATION, oldestTimestamp,
                       <<pastEpochStart + EPOCH_DURATION>> \o timestamps)
    ELSE timestamps

\* variant of GetEpochTimestamps: the for loop stops before i = count
GetEpochTimestampsNextCount(history, count) ==
    LET currentEpochStart == (now \div EPOCH_DURATION) * EPOCH_DURATION
        oldestTimestamp == IF Len(history) > 0 THEN history[1].timestamp ELSE now
        past == PastEpochEnds(currentEpochStart - EPOCH_DURATION, oldestTimestamp, <<>>)
    IN  past \o [i \in 1..count |-> currentEpochStart + i * EPOCH_DURATION]

\* variant of GetEpochTimestamps: the for loop leaves out the current epoch
GetEpochTimestampsAfterCurrent(history, count) ==
    LET currentEpochStart == (now \div EPOCH_DURATION) * EPOCH_DURATION
        oldestTimestamp == IF Len(history) > 0 THEN history[1].timestamp ELSE now
        past == PastEpochEnds(currentEpochStart - EPOCH_DURATION, oldestTimestamp, <<>>)
    IN  past \o [i \in 1..(count + 1) |-> currentEpochStart + (i + 1) * EPOCH_DURATION]

GetEpochTimestamps(history, count) ==
    LET currentEpochStart == (now \div EPOCH_DURATION) * EPOCH_DURATION
        oldestTimestamp == IF Len(history) > 0 THEN history[1].timestamp ELSE now
        past == PastEpochEnds(currentEpochStart - EPOCH_DURATION, oldestTimestamp, <<>>)
    IN  past \o [i \in 1..(count + 1) |-> currentEpochStart + i * EPOCH_DURATION]

----------------------------------------------------------------------------
(* Broadcast hub *)

\* broadcast(data): one send to every OPEN client
Broadcast(data) == [to |-> clients, m |-> data]

\* slice(-n) of a sequence
Last(q) == q[Len(q)]

LastN(s, n) == IF Len(s) <= n THEN s ELSE SubSeq(s, Len(s) - n + 1, Len(s))

\* variant of PushCapped: over the cap, the new entry is the one dropped
PushCappedKeepsOldest(s, x, cap) == IF Len(s) + 1 > cap THEN s ELSE Append(s, x)

\* push, then shift while over the cap
PushCapped(s, x, cap) == IF Len(s) + 1 > cap THEN Tail(Append(s, x)) ELSE Append(s, x)

----------------------------------------------------------------------------
(* JSON.stringify: NaN and the infinities are written as null *)

JsonNumber(x) == IF x.k \in {"nan", "inf", "ninf"} THEN Null ELSE x

JsonResult(r) ==
    [r EXCEPT !.startPrice = JsonNumber(r.startPrice), !.endPrice = JsonNumber(r.endPrice)]

JsonPoint(p) ==
    [p EXCEPT !.price = JsonNumber(p.price),
              !.epochResult = [i \in DOMAIN p.epochResult |-> JsonResult(p.epochResult[i])]]

JsonResults(rs) == [i \in DOMAIN rs |-> JsonResult(rs[i])]

JsonPoints(ps) == [i \in DOMAIN ps |-> JsonPoint(ps[i])]

----------------------------------------------------------------------------
(* Settlement engine: processEpochEnd *)

\* the state processEpochEnd and the tick handler work on
Engine ==
    [currentPrice |-> currentPrice, lastPriceTimestamp |-> lastPriceTimestamp,
     lastTickPriceInEpoch |-> lastTickPriceInEpoch, currentEpoch |-> currentEpoch,
     epochStartPrice |-> epochStartPrice, lastEpochEndPrice |-> lastEpochEndPrice,
     epochHistory |-> epochHistory, priceHistory |-> priceHistory]

\* variant of NoPriceYet: returns early as soon as the epoch had no tick
NoPriceYetEither == lastTickPriceInEpoch = Null \/ currentPrice = Null

\* the early return of processEpochEnd: no price was ever observed
NoPriceYet == lastTickPriceInEpoch = Null /\ currentPrice = Null

\* variant of SettlementPrice: the first tick of the epoch
SettlementPriceFirstTick == OrElse(epochStartPrice, currentPrice)

\* the settlement price: the last tick of the epoch, else the last known price
SettlementPrice == OrElse(lastTickPriceInEpoch, currentPrice)

\* variant of Outcome: a tie settles up
OutcomeTiesUp(epochEndPrice, reference) ==
    IF reference # Null
    THEN (IF Gt(reference, epochEndPrice) THEN "down" ELSE "up")
    ELSE "null"

\* variant of Outcome: no test for a missing reference
OutcomeNoNullTest(epochEndPrice, reference) ==
    IF Gt(epochEndPrice, reference) THEN "up" ELSE "down"

\* up or down against the previous settlement price, null when there is none
Outcome(epochEndPrice, reference) ==
    IF reference # Null
    THEN (IF Gt(epochEndPrice, reference) THEN "up" ELSE "down")
    ELSE "null"

RECURSIVE ReferenceIndexAtOrBefore(_, _, _)
\* variant of ReferenceIndex: the last point of an epoch up to endedEpoch
ReferenceIndexAtOrBefore(history, endedEpoch, i) ==
    IF i < 0 THEN -1
    ELSE IF history[i + 1].epoch <= endedEpoch THEN i
    ELSE ReferenceIndexAtOrBefore(history, endedEpoch, i - 1)

RECURSIVE ReferenceIndex(_, _, _)
\* the for loop over priceHistory, i counting down from length - 1 (0-based):
\* the last point of an epoch before endedEpoch, -1 when there is none
ReferenceIndex(history, endedEpoch, i) ==
    IF i < 0 THEN -1
    ELSE IF history[i + 1].epoch < endedEpoch THEN i
    ELSE ReferenceIndex(history, endedEpoch, i - 1)

\* mark the last price point as the epoch boundary
MarkEpochEnd(history, epochResult) ==
    IF Len(history) > 0
    THEN [history EXCEPT ![Len(history)].isEpochEnd = TRUE,
                         ![Len(history)].epochResult = <<epochResult>>]
    ELSE history

\* variant of NextEpoch: the index is left as it was
NextEpochStays == currentEpoch

\* variant of NextEpoch: count one epoch up
NextEpochPlusOne == currentEpoch + 1

\* the epoch index the engine moves to at settlement
NextEpoch == GetEpochNumber

\* variant of StateReset: the epoch's start price is left as it was
StateResetKeepsStartPrice(st, epochEndPrice) ==
    [st EXCEPT !.lastEpochEndPrice = epochEndPrice,
               !.currentEpoch = NextEpoch,
               !.lastTickPriceInEpoch = Null]

\* variant of StateReset: the reference price is left as it was
StateResetKeepsReference(st, epochEndPrice) ==
    [st EXCEPT !.currentEpoch = NextEpoch,
               !.epochStartPrice = currentPrice,
               !.lastTickPriceInEpoch = Null]

\* "Update state for next epoch": the four assignments after the epoch_end
\* broadcast, on the engine state st
StateReset(st, epochEndPrice) ==
    [st EXCEPT !.lastEpochEndPrice = epochEndPrice,
               !.currentEpoch = NextEpoch,
               !.epochStartPrice = currentPrice,
               !.lastTickPriceInEpoch = Null]

\* processEpochEnd: the engine state after it (st) and at its first broadcast
\* (mid), the messages it broadcasts and the EpochResults it creates
ProcessEpochEnd ==
    IF NoPriceYet THEN [st |-> Engine, mid |-> Engine, msgs |-> <<>>, results |-> <<>>]
    ELSE
    LET endedEpoch == currentEpoch
        epochEndPrice == SettlementPrice
        outcome == Outcome(epochEndPrice, lastEpochEndPrice)
        epochResult == [epoch |-> endedEpoch, startPrice |-> epochStartPrice,
                        endPrice |-> epochEndPrice, outcome |-> outcome,
                        timestamp |-> now]
        history == PushCapped(epochHistory, epochResult, MAX_EPOCH_HISTORY)
        points == MarkEpochEnd(priceHistory, epochResult)
        referenceIndex == ReferenceIndex(points, endedEpoch, Len(points) - 1)
        epochEnd == [type |-> "epoch_end", epoch |-> endedEpoch,
                     endPrice |-> JsonNumber(epochEndPrice),
                     referencePrice |-> JsonNumber(lastEpochEndPrice),
                     referenceIndex |-> referenceIndex, outcome |-> outcome,
                     timestamp |-> now,
                     epochTimestamps |-> GetEpochTimestamps(points, 10)]
        stored == [Engine EXCEPT !.epochHistory = history, !.priceHistory = points]
        after == StateReset(stored, epochEndPrice)
        epochStart == [type |-> "epoch_start", epoch |-> after.currentEpoch,
                       referencePrice |-> JsonNumber(after.lastEpochEndPrice),
                       timeRemaining |-> GetTimeRemaining, timestamp |-> now,
                       epochTimestamps |-> GetEpochTimestamps(points, 10)]
    IN  [st |-> after, mid |-> stored,
         msgs |-> <<Broadcast(epochEnd), Broadcast(epochStart)>>,
         results |-> <<epochResult>>]

\* variant of RolloverDue: also true inside the current epoch
RolloverDueAtOrAfter == GetEpochNumber >= currentEpoch

\* the test of the epoch timer: the wall clock is in a later epoch
RolloverDue == GetEpochNumber > currentEpoch

SetEngine(st) ==
    /\ currentPrice' = st.currentPrice
    /\ lastPriceTimestamp' = st.lastPriceTimestamp
    /\ lastTickPriceInEpoch' = st.lastTickPriceInEpoch
    /\ currentEpoch' = st.currentEpoch
    /\ epochStartPrice' = st.epochStartPrice
    /\ lastEpochEndPrice' = st.lastEpochEndPrice
    /\ epochHistory' = st.epochHistory
    /\ priceHistory' = st.priceHistory

\* the setInterval callback: settle when an epoch boundary was crossed, then
\* broadcast the time on the 100 ms grid
EpochTimerRun ==
    LET r == IF RolloverDue THEN ProcessEpochEnd
             ELSE [st |-> Engine, mid |-> Engine, msgs |-> <<>>, results |-> <<>>]
        time == IF now % 100 < 20
                THEN <<Broadcast([type |-> "time", epoch |-> r.st.currentEpoch,
                                  timeRemaining |-> GetTimeRemaining])>>
                ELSE <<>>
    IN  [r EXCEPT !.msgs = r.msgs \o time]

EpochTimer ==
    LET r == EpochTimerRun
    IN  /\ SetEngine(r.st)
        /\ sent' = r.msgs
        /\ produced' = produced \o r.results
        /\ settledIn' = IF r.results # <<>> THEN GetEpochNumber ELSE settledIn
        /\ rejected' = FALSE
        /\ UNCHANGED <<now, clients>>
        /\ UNCHANGED <<adapterVars, crashed, frontendVars>>

----------------------------------------------------------------------------
(* Tick source adapter: the upstream 'message' handler *)

\* upstream messages: type, and the price and expo fields as their characters
PythMessages ==
    { [type |-> "price_update", price |-> <<"2", "0", "0", "0">>, expo |-> <<"-", "2">>],
      [type |-> "price_update", price |-> <<"2", "0", "5">>, expo |-> <<"-", "1">>],
      [type |-> "price_update", price |-> <<"-", "5">>, expo |-> <<"0">>],
      [type |-> "price_update", price |-> <<"0">>, expo |-> <<"-", "2">>],
      [type |-> "price_update", price |-> <<"a", "b", "c">>, expo |-> <<"-", "2">>],
      [type |-> "price_update", price |-> <<"7">>, expo |-> <<"-", "4", "0", "0">>],
      [type |-> "price_update", price |-> <<"2">>, expo |-> <<"3", "0", "9">>],
      [type |-> "price_update", price |-> <<>>, expo |-> <<"-", "2">>],
      [type |-> "response", price |-> <<"2", "0", "0", "0">>, expo |-> <<"-", "2">>] }

\* the guards before the price is computed: a price_update carrying a
\* non-empty price field
IsPriceUpdate(msg) == msg.type = "price_update" /\ msg.price # <<>>

\* rawPrice * Math.pow(10, expo)
NormalizedPrice(msg) == Mul(ParseInt(msg.price), Pow10(ParseInt(msg.expo)))

\* variant of Accepts: no sign test
AcceptsAnyNumber(price) == ~IsNaN(price)

\* the validity test of a normalized price
Accepts(price) == ~IsNaN(price) /\ Gt(price, Num(0))

\* variant of AcceptTick: every tick is taken as the epoch's start price
AcceptTickRestartsEpoch(price) ==
    LET timestamp == now
        pricePoint == [price |-> price, timestamp |-> timestamp, epoch |-> currentEpoch,
                       isEpochEnd |-> FALSE, epochResult |-> <<>>]
    IN  [st |-> [Engine EXCEPT !.currentPrice = price,
                               !.lastPriceTimestamp = FromInt(timestamp),
                               !.lastTickPriceInEpoch = price,
                               !.epochStartPrice = price,
                               !.priceHistory =
                                   PushCapped(priceHistory, pricePoint, MAX_PRICE_HISTORY)],
         msgs |-> <<Broadcast([type |-> "price", price |-> JsonNumber(price),
                               timestamp |-> timestamp, epoch |-> currentEpoch,
                               timeRemaining |-> GetTimeRemaining])>>]

\* the tick handler on an accepted price: the engine state after it and the
\* price message
AcceptTick(price) ==
    LET timestamp == now
        pricePoint == [price |-> price, timestamp |-> timestamp, epoch |-> currentEpoch,
                       isEpochEnd |-> FALSE, epochResult |-> <<>>]
    IN  [st |-> [Engine EXCEPT !.currentPrice = price,
                               !.lastPriceTimestamp = FromInt(timestamp),
                               !.lastTickPriceInEpoch = price,
                               !.epochStartPrice =
                                   IF epochStartPrice = Null THEN price ELSE epochStartPrice,
                               !.priceHistory =
                                   PushCapped(priceHistory, pricePoint, MAX_PRICE_HISTORY)],
         msgs |-> <<Broadcast([type |-> "price", price |-> JsonNumber(price),
                               timestamp |-> timestamp, epoch |-> currentEpoch,
                               timeRemaining |-> GetTimeRemaining])>>]

\* the 'message' handler of the upstream socket
HandlePythMessage(msg) ==
    LET valid == IsPriceUpdate(msg)
        price == IF valid THEN NormalizedPrice(msg) ELSE Null
        r == IF valid /\ Accepts(price) THEN AcceptTick(price)
             ELSE [st |-> Engine, msgs |-> <<>>]
    IN  /\ SetEngine(r.st)
        /\ sent' = r.msgs
        /\ rejected' = (valid /\ ~Accepts(price))
        /\ UNCHANGED <<now, clients, produced, settledIn>>
        /\ UNCHANGED <<adapterVars, crashed, frontendVars>>

\* a message that the handler turns into a price point
IsTick(msg) == IsPriceUpdate(msg) /\ Accepts(NormalizedPrice(msg))

\* the handler, for at most MaxTicks price points
OnPythMessage(msg) ==
    /\ IsTick(msg) => Len(priceHistory) < MaxTicks
    /\ HandlePythMessage(msg)

----------------------------------------------------------------------------
(* Client session manager and heartbeat *)

\* pythWs && pythWs.readyState === WebSocket.OPEN
PythConnected ==
    IF pythWs = 0 THEN "null" ELSE IF socks[pythWs] = "open" THEN "true" ELSE "false"

\* the init snapshot sent to a joining client
InitMessage ==
    [type |-> "init", currentPrice |-> JsonNumber(currentPrice),
     currentEpoch |-> currentEpoch, timeRemaining |-> GetTimeRemaining,
     referencePrice |-> JsonNumber(lastEpochEndPrice),
     priceHistory |-> JsonPoints(LastN(priceHistory, 400)),
     epochHistory |-> JsonResults(LastN(epochHistory, 10)),
     epochTimestamps |-> GetEpochTimestamps(priceHistory, 10),
     pythConnected |-> PythConnected]

\* variant of OnConnection: a join brings the epoch index up to the clock
OnConnectionResyncsEpoch(c) ==
    /\ c \notin clients
    /\ clients' = clients \cup {c}
    /\ sent' = <<[to |-> {c}, m |-> InitMessage]>>
    /\ rejected' = FALSE
    /\ currentEpoch' = GetEpochNumber
    /\ UNCHANGED <<currentPrice, lastPriceTimestamp, lastTickPriceInEpoch, epochStartPrice,
                   lastEpochEndPrice, epochHistory, priceHistory>>
    /\ UNCHANGED <<now, produced, settledIn>>
    /\ UNCHANGED <<adapterVars, crashed, frontendVars>>

OnConnection(c) ==
    /\ c \notin clients
    /\ clients' = clients \cup {c}
    /\ sent' = <<[to |-> {c}, m |-> InitMessage]>>
    /\ rejected' = FALSE
    /\ UNCHANGED <<now, produced, settledIn>>
    /\ UNCHANGED engineVars
    /\ UNCHANGED <<adapterVars, crashed, frontendVars>>

OnClientClose(c) ==
    /\ c \in clients
    /\ clients' = clients \ {c}
    /\ sent' = <<>>
    /\ rejected' = FALSE
    /\ UNCHANGED <<now, produced, settledIn>>
    /\ UNCHANGED engineVars
    /\ UNCHANGED <<adapterVars, crashed, frontendVars>>

Heartbeat ==
    /\ sent' = <<Broadcast([type |-> "heartbeat", timestamp |-> now,
                            clients |-> Cardinality(clients)])>>
    /\ rejected' = FALSE
    /\ UNCHANGED <<now, clients, produced, settledIn>>
    /\ UNCHANGED engineVars
    /\ UNCHANGED <<adapterVars, crashed, frontendVars>>

----------------------------------------------------------------------------
(* The wall clock and the specification *)

\* time passes between callbacks, up to the instant t
AdvanceTo(t) ==
    /\ t > now
    /\ now' = t
    /\ sent' = <<>>
    /\ rejected' = FALSE
    /\ UNCHANGED <<clients, produced, settledIn>>
    /\ UNCHANGED engineVars
    /\ UNCHANGED <<adapterVars, crashed, frontendVars>>

\* a jump over several instants is a stall
Advance == \E t \in Instants : AdvanceTo(t)

\* the frontend's stores as created (userStore.ts:39-40, gameStore.ts:108-112)
\* and the hook's refs as created
FrontendInit ==
    /\ userStore = [balance |-> INITIAL_BALANCE, currentBet |-> <<>>]
    /\ gameStore = [currentPools |-> [up |-> 0, down |-> 0], pendingRound |-> <<>>,
                    lastOutcome |-> "null", lastPayout |-> Null, showResult |-> FALSE]
    /\ hookRefs = [pendingEpochEnd |-> <<>>, pendingEpochStart |-> <<>>]
    /\ animationFrames = <<>>
    /\ received = <<>>
    /\ betRound = -1
    /\ resolutions = <<>>
    /\ hookWs = [sockets |-> <<>>, wsRef |-> 0, reconnectTimeoutRef |-> 0,
                 timeouts |-> {}, mounted |-> FALSE]

Init ==
    /\ now \in {t \in Instants : t < EPOCH_DURATION}
    /\ currentPrice = Null
    /\ lastPriceTimestamp = Null
    /\ lastTickPriceInEpoch = Null
    /\ currentEpoch = now \div EPOCH_DURATION
    /\ epochStartPrice = Null
    /\ lastEpochEndPrice = Null
    /\ epochHistory = <<>>
    /\ priceHistory = <<>>
    /\ clients = {}
    /\ sent = <<>>
    /\ produced = <<>>
    /\ settledIn = -1
    /\ rejected = FALSE
    /\ socks = <<>>
    /\ pythWs = 0
    /\ reconnectTimeouts = 0
    /\ crashed = FALSE
    /\ FrontendInit

\* the engine alone: the clock, the epoch timer and the upstream feed
EngineNext ==
    \/ Advance
    \/ EpochTimer
    \/ \E msg \in PythMessages : OnPythMessage(msg)

EngineSpec == Init /\ [][EngineNext]_vars

\* the whole server
Next ==
    \/ Advance
    \/ EpochTimer
    \/ \E msg \in PythMessages : OnPythMessage(msg)
    \/ \E c \in ClientIds : OnConnection(c)
    \/ \E c \in ClientIds : OnClientClose(c)
    \/ Heartbeat

Spec == Init /\ [][Next]_vars

----------------------------------------------------------------------------
(* Tick source adapter: connectToPyth and the socket's event handlers.      *)
(* A socket is "connecting", "open", "closing" or "closed"; the ws library  *)
(* sets a failing socket to closing before it emits 'error', and emits      *)
(* 'close' once for every socket that ends.                                 *)

\* the process runs callbacks until an uncaught exception ends it
Running == ~crashed

\* callbacks that touch neither the engine nor the clients
AdapterFrame ==
    /\ sent' = <<>>
    /\ rejected' = FALSE
    /\ UNCHANGED <<now, clients, produced, settledIn>>
    /\ UNCHANGED engineVars
    /\ UNCHANGED frontendVars

\* pythWs && pythWs.readyState === WebSocket.OPEN
UpstreamOpen == pythWs # 0 /\ socks[pythWs] = "open"

\* connectToPyth: nothing when the current socket is open, else a new socket
ConnectToPyth ==
    IF UpstreamOpen THEN UNCHANGED <<socks, pythWs>>
    ELSE /\ Len(socks) < MaxSockets
         /\ socks' = Append(socks, "connecting")
         /\ pythWs' = Len(socks) + 1

\* the server.listen callback
Listen ==
    /\ socks = <<>>
    /\ reconnectTimeouts = 0
    /\ ConnectToPyth
    /\ UNCHANGED <<reconnectTimeouts, crashed>>
    /\ AdapterFrame

\* 'open' of socket s: subscribe through pythWs; nothing is broadcast
OnPythOpen(s) ==
    /\ socks[s] = "connecting"
    /\ socks' = [socks EXCEPT ![s] = "open"]
    /\ crashed' = (pythWs = 0 \/ socks'[pythWs] # "open")
    /\ UNCHANGED <<pythWs, reconnectTimeouts>>
    /\ AdapterFrame

\* what the feed sends: a price of 20.00 or a price that is not a number
FeedMessages ==
    { [type |-> "price_update", price |-> <<"2", "0", "0", "0">>, expo |-> <<"-", "2">>],
      [type |-> "price_update", price |-> <<"a", "b", "c">>, expo |-> <<"-", "2">>] }

\* 'message' of socket s; the feed falls silent after its first price point
OnPythSocketMessage(s, msg) ==
    /\ socks[s] = "open"
    /\ priceHistory = <<>>
    /\ HandlePythMessage(msg)

\* pythWs.close(): an open or connecting socket starts closing
CloseSocket(states, s) ==
    IF states[s] \in {"connecting", "open"} THEN [states EXCEPT ![s] = "closing"]
    ELSE states

\* 'error' of socket s: log, then pythWs.close()
OnPythError(s) ==
    /\ socks[s] \in {"connecting", "open"}
    /\ IF pythWs = 0
       THEN /\ socks' = [socks EXCEPT ![s] = "closing"]
            /\ crashed' = TRUE
       ELSE /\ socks' = CloseSocket([socks EXCEPT ![s] = "closing"], pythWs)
            /\ crashed' = FALSE
    /\ UNCHANGED <<pythWs, reconnectTimeouts>>
    /\ AdapterFrame

\* variant of AfterClose: no reconnect is scheduled
AfterCloseNoTimer == [pythWs |-> 0, reconnectTimeouts |-> reconnectTimeouts]

\* variant of AfterClose: the reconnect is scheduled twice
AfterCloseTwoTimers == [pythWs |-> 0, reconnectTimeouts |-> reconnectTimeouts + 2]

\* the 'close' handler: pythWs = null and a reconnect in 3000 ms
AfterClose == [pythWs |-> 0, reconnectTimeouts |-> reconnectTimeouts + 1]

\* 'close' of socket s, after an error, a close() or the peer's close
OnPythClose(s) ==
    /\ socks[s] \in {"open", "closing"}
    /\ socks' = [socks EXCEPT ![s] = "closed"]
    /\ pythWs' = AfterClose.pythWs
    /\ reconnectTimeouts' = AfterClose.reconnectTimeouts
    /\ UNCHANGED crashed
    /\ AdapterFrame

\* a pending setTimeout(connectToPyth, 3000) fires
ReconnectTimer ==
    /\ reconnectTimeouts > 0
    /\ reconnectTimeouts' = reconnectTimeouts - 1
    /\ ConnectToPyth
    /\ UNCHANGED crashed
    /\ AdapterFrame

SocketIds == 1..Len(socks)

\* the server with its upstream connection: ticks arrive on an open socket
UpstreamNext ==
    \/ Running /\ Listen
    \/ Running /\ \E s \in SocketIds : OnPythOpen(s)
    \/ Running /\ \E s \in SocketIds : \E msg \in FeedMessages : OnPythSocketMessage(s, msg)
    \/ Running /\ \E s \in SocketIds : OnPythError(s)
    \/ Running /\ \E s \in SocketIds : OnPythClose(s)
    \/ Running /\ ReconnectTimer
    \/ Running /\ Advance
    \/ Running /\ EpochTimer

\* the timers of the event loop fire (of the 50 ms timer, the runs that find
\* a boundary crossed), and a socket that is closing ends
UpstreamFairness ==
    /\ WF_vars(Running /\ RolloverDue /\ EpochTimer)
    /\ WF_vars(Running /\ ReconnectTimer)
    /\ WF_vars(Running /\ \E s \in SocketIds : socks[s] = "closing" /\ OnPythClose(s))

UpstreamSpec == Init /\ [][UpstreamNext]_vars /\ UpstreamFairness

----------------------------------------------------------------------------
(* Broadcasts in which client.send throws.  broadcast (index.js:86-93) has  *)
(* no try/catch: the exception ends the forEach, so the clients iterated    *)
(* after the failing one are not sent the message, and it leaves the        *)
(* callback at the broadcast call.  The iteration order is the order of     *)
(* joining, so any set of other clients may come before the failing one.    *)

FaultClients == {1, 2}

\* the broadcasts of a callback when the send to a client throws in the k-th
\* of them, after the clients of before were served
DeliverUpTo(msgs, k, before) ==
    [i \in 1..k |-> IF i < k THEN msgs[i] ELSE [to |-> before, m |-> msgs[k].m]]

\* the epoch timer when a send throws in its k-th broadcast: nothing catches
\* the exception and the process ends; in the epoch_end broadcast that is
\* before "Update state for next epoch"
EpochTimerSendThrows(f, before, k) ==
    LET r == EpochTimerRun
        st == IF r.results # <<>> /\ k = 1 THEN r.mid ELSE r.st
    IN  /\ f \in clients
        /\ before \subseteq clients \ {f}
        /\ k \in DOMAIN r.msgs
        /\ SetEngine(st)
        /\ sent' = DeliverUpTo(r.msgs, k, before)
        /\ produced' = produced \o r.results
        /\ settledIn' = IF r.results # <<>> THEN GetEpochNumber ELSE settledIn
        /\ rejected' = FALSE
        /\ crashed' = TRUE
        /\ UNCHANGED <<now, clients, adapterVars, frontendVars>>

\* the 'message' handler when a send of the price broadcast throws: the
\* handler's catch logs the exception, after the engine took the tick
OnPythMessageSendThrows(msg, f, before) ==
    /\ IsTick(msg)
    /\ Len(priceHistory) < MaxTicks
    /\ f \in clients
    /\ before \subseteq clients \ {f}
    /\ LET r == AcceptTick(NormalizedPrice(msg))
       IN  /\ SetEngine(r.st)
           /\ sent' = DeliverUpTo(r.msgs, 1, before)
    /\ rejected' = FALSE
    /\ UNCHANGED <<now, clients, produced, settledIn>>
    /\ UNCHANGED <<adapterVars, crashed, frontendVars>>

\* the heartbeat when a send throws: nothing catches the exception
HeartbeatSendThrows(f, before) ==
    /\ f \in clients
    /\ before \subseteq clients \ {f}
    /\ sent' = <<[to |-> before,
                  m |-> [type |-> "heartbeat", timestamp |-> now,
                         clients |-> Cardinality(clients)]]>>
    /\ rejected' = FALSE
    /\ crashed' = TRUE
    /\ UNCHANGED <<now, clients, produced, settledIn>>
    /\ UNCHANGED engineVars
    /\ UNCHANGED <<adapterVars, frontendVars>>

\* the server with clients whose sends may throw
FaultNext ==
    \/ Running /\ Advance
    \/ Running /\ EpochTimer
    \/ Running /\ \E msg \in FeedMessages : OnPythMessage(msg)
    \/ Running /\ \E c \in FaultClients : OnConnection(c)
    \/ Running /\ \E c \in FaultClients : OnClientClose(c)
    \/ Running /\ Heartbeat
    \/ Running /\ \E f \in FaultClients, before \in SUBSET FaultClients :
                     \E k \in 1..3 : EpochTimerSendThrows(f, before, k)
    \/ Running /\ \E f \in FaultClients, before \in SUBSET FaultClients :
                     \E msg \in FeedMessages : OnPythMessageSendThrows(msg, f, before)
    \/ Running /\ \E f \in FaultClients, before \in SUBSET FaultClients :
                     HeartbeatSendThrows(f, before)

FaultSpec == Init /\ [][FaultNext]_vars

----------------------------------------------------------------------------
(* A server started at t = 0 whose callbacks run at the instants of the     *)
(* two-epoch scenario: ticks of 20.00, 20.50 and 20.20 may arrive at any of *)
(* them, and the epoch timer may run at any of them.                        *)

ScenarioInstants == {100, 9900, 10050, 15000, 20010}

ScenarioMessages ==
    { [type |-> "price_update", price |-> <<"2", "0", "0", "0">>, expo |-> <<"-", "2">>],
      [type |-> "price_update", price |-> <<"2", "0", "5">>, expo |-> <<"-", "1">>],
      [type |-> "price_update", price |-> <<"2", "0", "2", "0">>, expo |-> <<"-", "2">>] }

ScenarioInit == Init /\ now = 0

\* the clock moves to the next instant of the scenario
ScenarioAdvance ==
    \E t \in ScenarioInstants :
        /\ \A u \in ScenarioInstants : u > now => t <= u
        /\ AdvanceTo(t)

\* one of the scenario's prices arrives, as many times as it has messages
ScenarioTick ==
    \E msg \in ScenarioMessages :
        /\ Len(priceHistory) < Cardinality(ScenarioMessages)
        /\ HandlePythMessage(msg)

ScenarioNext == ScenarioAdvance \/ ScenarioTick \/ EpochTimer

ScenarioSpec == ScenarioInit /\ [][ScenarioNext]_vars

----------------------------------------------------------------------------
(* The HTTP endpoint, and a server that takes subscribers and HTTP requests *)
(* between ticks and settlements.  An HTTP response is not a WebSocket      *)
(* message: it is recorded in sent with no subscriber as receiver.          *)

Urls == {"/", "/health", "/metrics"}

HealthBody ==
    [status |-> "ok", pythConnected |-> PythConnected,
     currentPrice |-> JsonNumber(currentPrice), currentEpoch |-> currentEpoch,
     timeRemaining |-> GetTimeRemaining, clients |-> Cardinality(clients)]

HttpResponse(url) ==
    IF url \in {"/", "/health"}
    THEN [type |-> "http", status |-> 200, body |-> HealthBody]
    ELSE [type |-> "http", status |-> 404, body |-> [text |-> "Not found"]]

\* the http.createServer request handler
OnHttpRequest(url) ==
    /\ sent' = <<[to |-> {}, m |-> HttpResponse(url)]>>
    /\ rejected' = FALSE
    /\ UNCHANGED <<now, clients, produced, settledIn>>
    /\ UNCHANGED engineVars
    /\ UNCHANGED <<adapterVars, crashed, frontendVars>>

SessionNext ==
    \/ Advance
    \/ EpochTimer
    \/ \E msg \in FeedMessages : OnPythMessage(msg)
    \/ \E c \in ClientIds : OnConnection(c)
    \/ \E c \in ClientIds : OnClientClose(c)
    \/ \E url \in Urls : OnHttpRequest(url)

SessionSpec == Init /\ [][SessionNext]_vars

----------------------------------------------------------------------------
(* A server that has been running for PastEpochs epochs.  It was started at *)
(* t = 0, took in a tick of 20.00 every 300 ms from t = 350 on, PastTicks   *)
(* of them, and settled at every epoch boundary.  Its state at half past    *)
(* the last settlement is the initial state here; from there ticks of other *)
(* prices arrive, at most one per instant, and the epoch timer runs.        *)

PastTickTime(i) == 50 + 300 * i

PastResult(e) ==
    [epoch |-> e, startPrice |-> Num(2000), endPrice |-> Num(2000),
     outcome |-> IF e = 0 THEN "null" ELSE "down",
     timestamp |-> (e + 1) * EPOCH_DURATION]

\* the i-th price point; the last point before a settlement was marked by
\* it, and the last point of all by every settlement since
PastPoint(i) ==
    LET epoch == PastTickTime(i) \div EPOCH_DURATION
        marked == i = PastTicks \/ PastTickTime(i + 1) \div EPOCH_DURATION > epoch
    IN  [price |-> Num(2000), timestamp |-> PastTickTime(i), epoch |-> epoch,
         isEpochEnd |-> marked,
         epochResult |-> IF ~marked THEN <<>>
                         ELSE IF i = PastTicks THEN <<PastResult(PastEpochs - 1)>>
                         ELSE <<PastResult(epoch)>>]

LongRunStart == PastEpochs * EPOCH_DURATION + 5050

LongRunInstants == {(PastEpochs + k) * EPOCH_DURATION : k \in 1..3}

LongRunMessages == {msg \in ScenarioMessages : NormalizedPrice(msg) # Num(2000)}

LongRunInit ==
    /\ now = LongRunStart
    /\ currentPrice = Num(2000)
    /\ lastPriceTimestamp = FromInt(PastTickTime(PastTicks))
    /\ lastTickPriceInEpoch = Null
    /\ currentEpoch = PastEpochs
    /\ epochStartPrice = Num(2000)
    /\ lastEpochEndPrice = Num(2000)
    /\ epochHistory = [e \in 1..PastEpochs |-> PastResult(e - 1)]
    /\ priceHistory = [i \in 1..PastTicks |-> PastPoint(i)]
    /\ clients = {}
    /\ sent = <<>>
    /\ produced = [e \in 1..PastEpochs |-> PastResult(e - 1)]
    /\ settledIn = PastEpochs
    /\ rejected = FALSE
    /\ socks = <<>>
    /\ pythWs = 0
    /\ reconnectTimeouts = 0
    /\ crashed = FALSE
    /\ FrontendInit

LongRunAdvance == \E t \in LongRunInstants : AdvanceTo(t)

LongRunTick ==
    \E msg \in LongRunMessages :
        /\ Last(priceHistory).timestamp < now
        /\ HandlePythMessage(msg)

LongRunNext == LongRunAdvance \/ LongRunTick \/ EpochTimer

LongRunSpec == LongRunInit /\ [][LongRunNext]_vars

----------------------------------------------------------------------------
(* The frontend: the user's bet (userStore.ts), the hook that takes in the  *)
(* server's messages (useBinanceWebSocket.ts) and the batched epoch         *)
(* transition of the game store (gameStore.ts).  The frontend is subscriber *)
(* FrontendId of the server.  Of the stores, the fields that placing and    *)
(* resolving a bet read or write are state; the chart's price points, the   *)
(* countdown and the epoch lists are not.  A WebSocket delivers in order    *)
(* and onmessage only assigns refs, so the messages of one server callback  *)
(* are taken in together, before the server's next callback.                *)

FrontendId == 1

Directions == {"up", "down"}

\* selectedStake as created (userStore.ts:41)
Stakes == {1}

serverVars == <<now, engineVars, clients, sent, produced, settledIn, rejected, adapterVars,
                crashed>>

ToFrontend(msgs) == SelectSeq(msgs, LAMBDA x : FrontendId \in x.to)

\* ws.onmessage: epoch_end and epoch_start are queued for the next frame
OnMessage(refs, data) ==
    CASE data.type = "epoch_end" ->
             [refs EXCEPT !.pendingEpochEnd =
                 <<[epoch |-> data.epoch, endPrice |-> data.endPrice,
                    referencePrice |-> data.referencePrice,
                    referenceIndex |-> data.referenceIndex, outcome |-> data.outcome,
                    timestamp |-> data.timestamp]>>]
      [] data.type = "epoch_start" ->
             [refs EXCEPT !.pendingEpochStart =
                 <<[epoch |-> data.epoch, referencePrice |-> data.referencePrice,
                    timeRemaining |-> data.timeRemaining]>>]
      [] OTHER -> refs

RECURSIVE ReceiveAll(_, _)
ReceiveAll(refs, msgs) ==
    IF msgs = <<>> THEN refs
    ELSE ReceiveAll(OnMessage(refs, Head(msgs).m), Tail(msgs))

\* the frontend has taken in what the server's last callback sent to it
Delivered == ToFrontend(sent) = <<>> \/ received = <<now, sent>>

OnFrontendMessages ==
    /\ ~Delivered
    /\ hookRefs' = ReceiveAll(hookRefs, ToFrontend(sent))
    /\ received' = <<now, sent>>
    /\ UNCHANGED <<userStore, gameStore, animationFrames, betRound, resolutions, hookWs>>
    /\ UNCHANGED serverVars

\* variant of PlaceBetRun: the stake of the replaced bet is not refunded
PlaceBetRunNoRefund(direction, amount) ==
    IF amount > userStore.balance
    THEN [ok |-> FALSE, userStore |-> userStore]
    ELSE [ok |-> TRUE,
          userStore |-> [balance |-> userStore.balance - amount,
                         currentBet |-> <<[direction |-> direction, amount |-> amount]>>]]

\* userStore.placeBet: what it returns and the store after it; a bet replaces
\* the current one, whose stake is refunded
PlaceBetRun(direction, amount) ==
    LET refund == IF userStore.currentBet = <<>> THEN 0 ELSE userStore.currentBet[1].amount
        effectiveBalance == userStore.balance + refund
    IN  IF amount > effectiveBalance
        THEN [ok |-> FALSE, userStore |-> userStore]
        ELSE [ok |-> TRUE,
              userStore |-> [balance |-> effectiveBalance - amount,
                             currentBet |-> <<[direction |-> direction,
                                               amount |-> amount]>>]]

\* a call of placeBet from the page
PlaceBet(direction, amount) ==
    LET r == PlaceBetRun(direction, amount)
    IN  /\ userStore' = r.userStore
        /\ betRound' = IF r.ok THEN currentEpoch ELSE betRound
        /\ UNCHANGED <<gameStore, hookRefs, animationFrames, received, resolutions, hookWs>>
        /\ UNCHANGED serverVars

\* the frame tick with a queued epoch event: the bet is captured and cleared,
\* the store update is deferred to the next animation frame
FrameTick ==
    LET epochEndData == hookRefs.pendingEpochEnd
        epochStartData == hookRefs.pendingEpochStart
        betToResolve == userStore.currentBet
        poolsSnapshot == gameStore.currentPools
    IN  /\ epochEndData # <<>> \/ epochStartData # <<>>
        /\ hookRefs' = [pendingEpochEnd |-> <<>>, pendingEpochStart |-> <<>>]
        /\ userStore' = IF epochEndData # <<>> /\ betToResolve # <<>>
                        THEN [userStore EXCEPT !.currentBet = <<>>]
                        ELSE userStore
        /\ animationFrames' =
               Append(animationFrames,
                      [epochEnd |-> epochEndData, epochStart |-> epochStartData,
                       currentBet |-> betToResolve, currentPools |-> poolsSnapshot,
                       betRound |-> betRound])
        /\ UNCHANGED <<gameStore, received, betRound, resolutions, hookWs>>
        /\ UNCHANGED serverVars

\* the payout of a winning bet, in hundredths: its share of the pools less
\* the 5% rake, or the stake when the winning pool is empty
Payout(bet, outcome, pools) ==
    IF bet.direction = outcome
    THEN IF pools[outcome] > 0 /\ pools.up + pools.down > 0
         THEN Num((bet.amount * (pools.up + pools.down) * 95) \div pools[outcome])
         ELSE Num(bet.amount * 100)
    ELSE Num(0)

\* the bet that handleEpochTransition resolves, if any
Resolves(frame) ==
    /\ frame.epochEnd # <<>>
    /\ frame.currentBet # <<>>
    /\ frame.epochEnd[1].outcome # "null"

\* gameStore.handleEpochTransition, the fields of the bet
HandleEpochTransition(store, frame) ==
    IF Resolves(frame)
    THEN LET epochEnd == frame.epochEnd[1]
             currentBet == frame.currentBet[1]
         IN  [store EXCEPT
                 !.pendingRound =
                     <<[roundNumber |-> epochEnd.epoch,
                        referencePrice |-> OrElse(epochEnd.referencePrice, Num(0)),
                        userBet |-> [direction |-> currentBet.direction,
                                     amount |-> currentBet.amount,
                                     timestamp |-> epochEnd.timestamp],
                        pools |-> frame.currentPools]>>,
                 !.lastOutcome = epochEnd.outcome,
                 !.showResult = TRUE,
                 !.lastPayout = Payout(currentBet, epochEnd.outcome, frame.currentPools)]
    ELSE store

\* the requestAnimationFrame callback queued by the frame tick
AnimationFrame ==
    /\ animationFrames # <<>>
    /\ LET frame == Head(animationFrames)
       IN  /\ gameStore' = HandleEpochTransition(gameStore, frame)
           /\ resolutions' =
                  IF Resolves(frame)
                  THEN Append(resolutions,
                              [betRound |-> frame.betRound,
                               direction |-> frame.currentBet[1].direction,
                               epoch |-> frame.epochEnd[1].epoch,
                               outcome |-> frame.epochEnd[1].outcome,
                               endPrice |-> frame.epochEnd[1].endPrice,
                               referencePrice |-> frame.epochEnd[1].referencePrice])
                  ELSE resolutions
    /\ animationFrames' = Tail(animationFrames)
    /\ UNCHANGED <<userStore, hookRefs, received, betRound, hookWs>>
    /\ UNCHANGED serverVars

\* gameStore.clearResult, called by the result display after its delay
ClearResult ==
    /\ gameStore.showResult
    /\ gameStore' = [gameStore EXCEPT !.showResult = FALSE, !.lastOutcome = "null",
                                      !.lastPayout = Null]
    /\ UNCHANGED <<userStore, hookRefs, animationFrames, received, betRound, resolutions, hookWs>>
    /\ UNCHANGED serverVars

\* the server's clock reaches the end of the first, second and third epoch
FrontendInstants == {EPOCH_DURATION, 2 * EPOCH_DURATION, 3 * EPOCH_DURATION}

\* the instants are seconds apart and a frame is 33 ms: before the clock
\* reaches the next instant the frontend has run the frames it queued
FramesDone ==
    /\ hookRefs = [pendingEpochEnd |-> <<>>, pendingEpochStart |-> <<>>]
    /\ animationFrames = <<>>

FrontendAdvance == FramesDone /\ \E t \in FrontendInstants : AdvanceTo(t)

\* ticks of 20.00 and 20.50
FrontendMessages == {msg \in ScenarioMessages : NormalizedPrice(msg) # Num(2020)}

FrontendTick ==
    \E msg \in FrontendMessages :
        /\ Len(priceHistory) < Cardinality(FrontendMessages)
        /\ HandlePythMessage(msg)

\* the user bets on the page once it is connected
FrontendBet ==
    /\ FrontendId \in clients
    /\ userStore.currentBet # <<>> \/ INITIAL_BALANCE - userStore.balance < MaxBets
    /\ \E direction \in Directions, amount \in Stakes : PlaceBet(direction, amount)

\* the server with one frontend
FrontendNext ==
    \/ Delivered /\ FrontendAdvance
    \/ Delivered /\ EpochTimer
    \/ Delivered /\ FrontendTick
    \/ Delivered /\ OnConnection(FrontendId)
    \/ OnFrontendMessages
    \/ FrontendBet
    \/ FrameTick
    \/ AnimationFrame
    \/ ClearResult

FrontendSpec == ScenarioInit /\ [][FrontendNext]_vars

----------------------------------------------------------------------------
(* The hook's connection to the server: useBinanceWebSocket's connect,      *)
(* disconnect and socket handlers, and the effect that calls them.  hookWs  *)
(* holds the readyState of every socket the hook created (sockets), wsRef   *)
(* as an index into them (0 for null), the pending reconnect timers         *)
(* (timeouts; a timer carries the index of the socket whose onclose set     *)
(* it), reconnectTimeoutRef as the timer it holds (0 for null), and whether *)
(* the component is mounted.  A socket's close() only starts the closing:   *)
(* its onclose runs as a later task.                                        *)

\* connect(): nothing when the current socket is open, else a new socket
HookConnect(h) ==
    IF h.wsRef # 0 /\ h.sockets[h.wsRef] = "open" THEN h
    ELSE [h EXCEPT !.sockets = Append(@, "connecting"), !.wsRef = Len(h.sockets) + 1]

\* connect() creates a socket, and the model has room for it
CanConnect(h) ==
    (h.wsRef # 0 /\ h.sockets[h.wsRef] = "open") \/ Len(h.sockets) < MaxHookSockets

\* disconnect(): clear the timer the ref holds, close the current socket
HookDisconnect(h) ==
    [h EXCEPT !.timeouts = @ \ {h.reconnectTimeoutRef},
              !.reconnectTimeoutRef = 0,
              !.sockets = IF h.wsRef # 0 /\ @[h.wsRef] \in {"connecting", "open"}
                          THEN [@ EXCEPT ![h.wsRef] = "closing"] ELSE @,
              !.wsRef = 0]

HookFrame ==
    /\ UNCHANGED <<userStore, gameStore, hookRefs, animationFrames, received, betRound,
                   resolutions>>
    /\ UNCHANGED serverVars

\* the effect on mount: connect()
EffectMount ==
    /\ ~hookWs.mounted
    /\ CanConnect(hookWs)
    /\ hookWs' = [HookConnect(hookWs) EXCEPT !.mounted = TRUE]
    /\ HookFrame

\* the effect's cleanup on unmount: disconnect()
EffectUnmount ==
    /\ hookWs.mounted
    /\ hookWs' = [HookDisconnect(hookWs) EXCEPT !.mounted = FALSE]
    /\ HookFrame

\* connect got a new identity (tick depends on currentBet): the cleanup and
\* the effect run one after the other
EffectRerun ==
    /\ hookWs.mounted
    /\ CanConnect(HookDisconnect(hookWs))
    /\ hookWs' = HookConnect(HookDisconnect(hookWs))
    /\ HookFrame

HookSocketIds == DOMAIN hookWs.sockets

\* ws.onopen
WsOnOpen(s) ==
    /\ hookWs.sockets[s] = "connecting"
    /\ hookWs' = [hookWs EXCEPT !.sockets[s] = "open"]
    /\ HookFrame

\* ws.onerror: ws.close()
WsOnError(s) ==
    /\ hookWs.sockets[s] \in {"connecting", "open"}
    /\ hookWs' = [hookWs EXCEPT !.sockets[s] = "closing"]
    /\ HookFrame

\* ws.onclose: wsRef.current = null and a reconnect in RECONNECT_DELAY
WsOnClose(s) ==
    /\ hookWs.sockets[s] \in {"open", "closing"}
    /\ hookWs' = [hookWs EXCEPT !.sockets[s] = "closed",
                                !.wsRef = 0,
                                !.timeouts = @ \cup {s},
                                !.reconnectTimeoutRef = s]
    /\ HookFrame

\* a pending reconnect timer fires: connect()
HookReconnect(t) ==
    /\ t \in hookWs.timeouts
    /\ CanConnect(hookWs)
    /\ hookWs' = HookConnect([hookWs EXCEPT !.timeouts = @ \ {t}])
    /\ HookFrame

HookNext ==
    \/ EffectMount
    \/ EffectUnmount
    \/ EffectRerun
    \/ \E s \in HookSocketIds : WsOnOpen(s)
    \/ \E s \in HookSocketIds : WsOnError(s)
    \/ \E s \in HookSocketIds : WsOnClose(s)
    \/ \E t \in HookSocketIds : HookReconnect(t)

HookSpec == ScenarioInit /\ [][HookNext]_vars

----------------------------------------------------------------------------
(* The user store alone: the page places and replaces bets with any of its  *)
(* amounts, the hook clears the bet, payouts are credited and the balance   *)
(* is reset, while the server does nothing.                                 *)

\* PRESET_AMOUNTS of the stake selector, and 0
Amounts == {0, 1, 5, 10, 25}

\* lastPayout of a won bet with empty pools: the stake
Payouts == Amounts

BetFrame ==
    /\ UNCHANGED <<gameStore, hookRefs, animationFrames, received, resolutions, hookWs>>
    /\ UNCHANGED serverVars

\* userStore.clearCurrentBet
ClearCurrentBet ==
    /\ userStore.currentBet # <<>>
    /\ userStore' = [userStore EXCEPT !.currentBet = <<>>]
    /\ UNCHANGED betRound
    /\ BetFrame

\* userStore.adjustBalance
AdjustBalance(amount) ==
    /\ userStore.balance + amount <= MaxBalance
    /\ userStore' = [userStore EXCEPT
                        !.balance = IF userStore.balance + amount > 0
                                    THEN userStore.balance + amount ELSE 0]
    /\ UNCHANGED betRound
    /\ BetFrame

\* userStore.resetBalance
ResetBalance ==
    /\ userStore' = [userStore EXCEPT !.balance = INITIAL_BALANCE]
    /\ UNCHANGED betRound
    /\ BetFrame

BetNext ==
    \/ \E direction \in Directions, amount \in Amounts : PlaceBet(direction, amount)
    \/ ClearCurrentBet
    \/ \E amount \in Payouts : AdjustBalance(amount)
    \/ ResetBalance

BetSpec == ScenarioInit /\ [][BetNext]_vars

----------------------------------------------------------------------------
(* Properties *)

MessageTypes(msgs) == {msgs[i].m.type : i \in DOMAIN msgs}


\* a value that is a finite number or null
FiniteOrNull(x) == x.k \in {"num", "null"}

\* C1: once a rollover check has settled in a wall-clock epoch, every further
\* run of the epoch timer in that same wall-clock epoch appends no EpochResult
\* and broadcasts neither epoch_end nor epoch_start.
C1_AtMostOneSettlementPerEpoch ==
    [][(EpochTimer /\ settledIn = GetEpochNumber)
         => /\ produced' = produced
            /\ epochHistory' = epochHistory
            /\ MessageTypes(sent') \cap {"epoch_end", "epoch_start"} = {}]_vars

\* C1 witness: the timer ran again in the epoch of a settlement and only
\* broadcast the time.
C1_Witness ==
    /\ settledIn = GetEpochNumber
    /\ Len(sent) = 1
    /\ sent[1].m.type = "time"

\* C2 as stated: whenever currentEpoch changes it grows by exactly 1 (stated
\* for the runs in which every observed price is finite).
C2_IncreasesByExactlyOne ==
    [][(currentEpoch' # currentEpoch /\ FiniteOrNull(currentPrice))
         => currentEpoch' = currentEpoch + 1]_vars

\* C2 amended: currentEpoch changes only in a settling run of the epoch timer,
\* and every settlement sets it to floor(now / EPOCH_DURATION), a strictly
\* greater value: it never repeats and never decreases, but it grows by more
\* than 1 when several boundaries were crossed since it was last set.
C2_RolloverFollowsClock ==
    [][(currentEpoch' # currentEpoch \/ produced' # produced)
         => /\ EpochTimer
            /\ Len(produced') = Len(produced) + 1
            /\ currentEpoch' > currentEpoch
            /\ currentEpoch' = now' \div EPOCH_DURATION]_vars

\* C2 witness: a settlement that moved the index past the epoch after the
\* settled one.
C2_Witness ==
    /\ produced # <<>>
    /\ currentEpoch > Last(produced).epoch + 1

\* C3: after every run of the epoch timer currentEpoch = floor(now /
\* EPOCH_DURATION), and the run never decreases it.
C3_IndexEqualsClockAfterCheck ==
    [][EpochTimer => /\ currentEpoch' >= currentEpoch
                     /\ currentEpoch' = now' \div EPOCH_DURATION]_vars

\* C4: every EpochResult after the first has outcome up exactly when its
\* endPrice is greater than the endPrice of the result before it, and down
\* otherwise.
C4_ReferenceChaining ==
    \A i \in 2..Len(produced) :
        produced[i].outcome =
            IF Gt(produced[i].endPrice, produced[i - 1].endPrice) THEN "up" ELSE "down"

\* C4 witness: three results, the second settled up, the third settled down
\* against the second although its endPrice is above that of the first.
C4_Witness ==
    /\ Len(produced) >= 3
    /\ produced[2].outcome = "up"
    /\ produced[3].outcome = "down"
    /\ Gt(produced[3].endPrice, produced[1].endPrice)
    /\ epochHistory = produced

\* C5: the first EpochResult ever produced has outcome null and no later one
\* has.
C5_OnlyFirstOutcomeNull ==
    /\ produced # <<>> => produced[1].outcome = "null"
    /\ \A i \in 2..Len(produced) : produced[i].outcome # "null"

\* C5 witness: three results were produced.
C5_Witness == Len(produced) >= 3 /\ produced[1].outcome = "null"

\* C6: a run of the epoch timer that finds a boundary crossed while no price
\* was ever observed emits no EpochResult and no epoch_end, and still moves
\* currentEpoch to the new epoch.
C6_NoPriceStillAdvances ==
    [][(EpochTimer /\ RolloverDue /\ currentPrice = Null)
         => /\ produced' = produced
            /\ "epoch_end" \notin MessageTypes(sent')
            /\ currentEpoch' = now' \div EPOCH_DURATION]_vars

\* C7: a rollover of an epoch without any tick, while a price was observed
\* earlier, appends one EpochResult whose endPrice is the last known price and
\* whose outcome is computed against the reference price in force.
C7_NoTickEpochSettlesOnLastPrice ==
    [][(EpochTimer /\ RolloverDue /\ lastTickPriceInEpoch = Null /\ currentPrice # Null)
         => /\ Len(produced') = Len(produced) + 1
            /\ Last(produced').epoch = currentEpoch
            /\ Last(produced').endPrice = currentPrice
            /\ Last(produced').outcome =
                   IF lastEpochEndPrice = Null THEN "null"
                   ELSE IF Gt(currentPrice, lastEpochEndPrice) THEN "up" ELSE "down"
            /\ epochHistory' = Append(epochHistory, Last(produced'))
            /\ "epoch_end" \in MessageTypes(sent')]_vars

\* C7 witness: the timer just settled an epoch of which the price history
\* holds no point, at a last known price.
C7_Witness ==
    /\ "epoch_end" \in MessageTypes(sent)
    /\ priceHistory # <<>>
    /\ \A i \in DOMAIN priceHistory : priceHistory[i].epoch # Last(produced).epoch
    /\ Last(produced).endPrice = currentPrice

\* a normalized price that is negative, zero or NaN
NonPositiveOrNaN(x) == x.k \in {"nan", "ninf"} \/ (x.k = "num" /\ x.v <= 0)

\* C8: a tick whose normalized price is negative, zero or NaN changes no
\* engine variable and broadcasts nothing.
C8_TickRejection ==
    [][\A msg \in PythMessages :
          (OnPythMessage(msg) /\ IsPriceUpdate(msg)
             /\ NonPositiveOrNaN(NormalizedPrice(msg)))
            => /\ UNCHANGED engineVars
               /\ UNCHANGED <<produced, settledIn, clients>>
               /\ sent' = <<>>]_vars

\* C8 witness: a price was just discarded by an engine that holds a price, a
\* price history and an open epoch.
C8_Witness ==
    /\ rejected
    /\ sent = <<>>
    /\ lastTickPriceInEpoch # Null
    /\ priceHistory # <<>>

\* C9: a non-finite normalized price never becomes currentPrice or the last
\* tick price, is never in the price history and never is a settlement price.
C9_NonFinitePriceRejected ==
    /\ FiniteOrNull(currentPrice)
    /\ FiniteOrNull(lastTickPriceInEpoch)
    /\ \A i \in DOMAIN priceHistory : FiniteOrNull(priceHistory[i].price)
    /\ \A i \in DOMAIN produced : FiniteOrNull(produced[i].endPrice)

\* C10: every init snapshot is one consistent engine state: its reference
\* price is the endPrice of the last EpochResult it carries (null when it
\* carries none), that result is of an epoch before the snapshot's
\* currentEpoch, and the three fields are the engine's at the join.
C10_SnapshotConsistency ==
    \A i \in DOMAIN sent :
        sent[i].m.type = "init" =>
            LET s == sent[i].m
            IN  /\ s.referencePrice =
                       IF s.epochHistory = <<>> THEN Null
                       ELSE Last(s.epochHistory).endPrice
                /\ s.epochHistory # <<>> => Last(s.epochHistory).epoch < s.currentEpoch
                /\ s.currentEpoch = currentEpoch
                /\ s.referencePrice = JsonNumber(lastEpochEndPrice)
                /\ s.epochHistory = JsonResults(LastN(epochHistory, 10))

\* C10 witness: a client joined in the very millisecond of a settlement.
C10_Witness ==
    /\ "init" \in MessageTypes(sent)
    /\ produced # <<>>
    /\ Last(produced).timestamp = now
    /\ sent[1].m.referencePrice # Null

----------------------------------------------------------------------------
(* The two-epoch scenario *)

\* the i-th price point is price (in hundredths), received at t
TickIs(i, price, t) ==
    /\ Len(priceHistory) >= i
    /\ priceHistory[i].price = Num(price)
    /\ priceHistory[i].timestamp = t

\* the i-th EpochResult was created at t
ResultAt(i, t) == Len(produced) >= i /\ produced[i].timestamp = t

\* ticks of 20.00 at t = 100 and 20.50 at t = 9900, no other tick before the
\* rollover check at t = 10050 that settled
ScenarioFirstEpoch ==
    /\ TickIs(1, 2000, 100)
    /\ TickIs(2, 2050, 9900)
    /\ ResultAt(1, 10050)
    /\ Len(priceHistory) >= 3 => priceHistory[3].timestamp = 15000

\* then a tick of 20.20 at t = 15000, the last one
ScenarioThirdTick == TickIs(3, 2020, 15000) /\ Len(priceHistory) = 3

\* C12: with epochs of 10000 ms and currentEpoch 0 at the start, ticks of
\* 20.00 at t = 100 and 20.50 at t = 9900 make the check at t = 10050 settle
\* epoch 0 at 20.50 with outcome null and leave the reference price 20.50 and
\* currentEpoch 1; a tick of 20.20 at t = 15000 then is the last tick price,
\* and the check at t = 20010 settles epoch 1 at 20.20 with outcome down.
C12_TwoEpochScenario ==
    /\ ScenarioFirstEpoch
          => /\ produced[1].epoch = 0
             /\ produced[1].endPrice = Num(2050)
             /\ produced[1].outcome = "null"
             /\ Len(produced) = 1 => (lastEpochEndPrice = Num(2050) /\ currentEpoch = 1)
    /\ (ScenarioFirstEpoch /\ ScenarioThirdTick /\ Len(produced) = 1)
          => lastTickPriceInEpoch = Num(2020)
    /\ (ScenarioFirstEpoch /\ ScenarioThirdTick /\ ResultAt(2, 20010))
          => /\ produced[2].epoch = 1
             /\ produced[2].endPrice = Num(2020)
             /\ produced[2].outcome = "down"

\* C12 witness: the whole scenario has run, both settlements included.
C12_Witness ==
    /\ ScenarioFirstEpoch
    /\ ScenarioThirdTick
    /\ ResultAt(2, 20010)
    /\ now = 20010
    /\ lastEpochEndPrice = Num(2020)

----------------------------------------------------------------------------
(* Outcome rule and the epoch_end / epoch_start messages *)

\* C13: a settlement made while a reference price exists has outcome up
\* exactly when its endPrice is greater than that reference price, and down
\* otherwise, equality included; the epoch_end message carries that outcome.
C13_OutcomeRule ==
    [][(produced' # produced /\ lastEpochEndPrice # Null)
         => /\ Last(produced').outcome =
                   IF Gt(Last(produced').endPrice, lastEpochEndPrice) THEN "up" ELSE "down"
            /\ Last(produced').endPrice = lastEpochEndPrice
                   => Last(produced').outcome = "down"
            /\ sent'[1].m.outcome = Last(produced').outcome]_vars

\* C13 witness: a settlement at a finite price equal to its reference price
\* settled down, after a tick of its own epoch.
C13_Witness ==
    /\ Len(produced) >= 2
    /\ Last(produced).endPrice.k = "num"
    /\ Last(produced).endPrice = produced[Len(produced) - 1].endPrice
    /\ Last(produced).outcome = "down"
    /\ Last(priceHistory).epoch = Last(produced).epoch

\* C14: in what the server broadcasts, every epoch_end is immediately
\* followed by an epoch_start to the same clients, every epoch_start is
\* immediately preceded by an epoch_end, and the epoch_start carries a
\* greater epoch index than the epoch_end.
C14_EpochEndThenStart ==
    \A i \in DOMAIN sent :
        /\ sent[i].m.type = "epoch_end"
              => /\ i + 1 \in DOMAIN sent
                 /\ sent[i + 1].m.type = "epoch_start"
                 /\ sent[i + 1].to = sent[i].to
                 /\ sent[i + 1].m.epoch > sent[i].m.epoch
        /\ sent[i].m.type = "epoch_start"
              => /\ i - 1 \in DOMAIN sent
                 /\ sent[i - 1].m.type = "epoch_end"

\* C14 witness: a connected client was sent epoch_end, epoch_start and the
\* time, in that order, the epoch_start two epochs after the epoch_end.
C14_Witness ==
    /\ Len(sent) = 3
    /\ sent[1].to # {}
    /\ sent[1].m.type = "epoch_end"
    /\ sent[2].m.type = "epoch_start"
    /\ sent[3].m.type = "time"
    /\ sent[2].m.epoch = sent[1].m.epoch + 2

\* C15: every epoch_end sent to a client carries as referencePrice the
\* reference price in force before the settlement (the endPrice of the
\* previous EpochResult, null for the first), and the epoch_start after it
\* carries as referencePrice the endPrice of that epoch_end.
C15_ReferencePriceInMessages ==
    \A i \in DOMAIN sent :
        (sent[i].m.type = "epoch_end" /\ sent[i].to # {})
            => /\ sent[i].m.referencePrice =
                      IF Len(produced) = 1 THEN Null
                      ELSE produced[Len(produced) - 1].endPrice
               /\ sent[i + 1].m.referencePrice = sent[i].m.endPrice

C17_SettlesMostRecentlyEndedEpoch ==
    [][(EpochTimer /\ GetEpochNumber > currentEpoch + 1
          /\ currentPrice # Null /\ FiniteOrNull(currentPrice))
         => /\ Len(produced') = Len(produced) + 1
            /\ Last(produced').epoch = (now \div EPOCH_DURATION) - 1
            /\ Last(produced').endPrice = currentPrice]_vars

\* C17 amended: such a check creates exactly one EpochResult, labelled with
\* the index the engine held before the check (the oldest unsettled epoch)
\* and settled at the latest tick, broadcasts one epoch_end and moves
\* currentEpoch to floor(now / EPOCH_DURATION); the epochs in between never
\* get a result, since every later result is labelled with the wall-clock
\* epoch in which the settlement before it ran.
C17_SettlesOldestUnsettledEpoch ==
    /\ [][(EpochTimer /\ GetEpochNumber > currentEpoch + 1 /\ currentPrice # Null)
            => /\ Len(produced') = Len(produced) + 1
               /\ Last(produced').epoch = currentEpoch
               /\ Last(produced').endPrice = currentPrice
               /\ Cardinality({i \in DOMAIN sent' : sent'[i].m.type = "epoch_end"}) = 1
               /\ currentEpoch' = now \div EPOCH_DURATION]_vars
    /\ [](\A i \in 2..Len(produced) :
             /\ produced[i].epoch = produced[i - 1].timestamp \div EPOCH_DURATION
             /\ produced[i].epoch > produced[i - 1].epoch)

\* C17 witness: the second settlement ran two epochs after the one it is
\* labelled with.
C17_Witness ==
    /\ Len(produced) >= 2
    /\ produced[2].timestamp \div EPOCH_DURATION = produced[2].epoch + 2
    /\ currentEpoch = produced[2].epoch + 2

----------------------------------------------------------------------------
(* The upstream connection *)

\* C18: each time the upstream connection opens and each time it closes, a
\* status message carrying the new upstream-connected value is broadcast.
C18_StatusOnOpenAndClose ==
    [][UpstreamOpen' # UpstreamOpen
         => \E i \in DOMAIN sent' :
                /\ sent'[i].m.type = "status"
                /\ sent'[i].m.connected = UpstreamOpen']_vars

\* C19: once a price was observed, every epoch boundary the clock crosses is
\* followed by a settlement made at or after that boundary, whether or not
\* another tick arrives and whatever the state of the upstream connection.
C19_SettlementWithoutTicks ==
    (currentPrice # Null /\ RolloverDue) ~> (settledIn = GetEpochNumber)

\* C19 witness: with the upstream connection gone and a single tick, in
\* epoch 0, settlements were made in two later epochs.
C19_Witness ==
    /\ pythWs = 0
    /\ Len(priceHistory) = 1
    /\ priceHistory[1].timestamp < EPOCH_DURATION
    /\ Len(produced) >= 2
    /\ settledIn = GetEpochNumber
    /\ Last(produced).timestamp > produced[1].timestamp

\* C20: once the server listens, it never is without both an upstream socket
\* and a pending reconnect timer, and after every socket that fails or closes
\* a further connection attempt is made: whenever the newest socket has
\* failed or closed, a newer one is connecting later, again and again while
\* attempts fail (up to the MaxSockets sockets of the model).
C20_ReconnectAfterCloseOrError ==
    /\ []((socks # <<>> /\ ~crashed) => (pythWs # 0 \/ reconnectTimeouts > 0))
    /\ (socks # <<>> /\ Last(socks) \in {"closing", "closed"} /\ Len(socks) < MaxSockets)
          ~> (socks # <<>> /\ Last(socks) = "connecting")

\* C20 witness: two attempts failed before they opened, and a third socket is
\* connecting.
C20_Witness ==
    /\ Len(socks) = 3
    /\ socks[1] = "closed"
    /\ socks[2] = "closed"
    /\ socks[3] = "connecting"
    /\ pythWs = 3
    /\ priceHistory = <<>>

----------------------------------------------------------------------------
(* Broadcast isolation *)

\* a broadcast of some callback in which the send to f throws
SendThrows(f) ==
    \E before \in SUBSET FaultClients :
        \/ \E k \in 1..3 : EpochTimerSendThrows(f, before, k)
        \/ \E msg \in FeedMessages : OnPythMessageSendThrows(msg, f, before)
        \/ HeartbeatSendThrows(f, before)

\* C11: when the send to one client throws during a broadcast, every other
\* connected client still is sent that message and the epoch_start that
\* belongs to an epoch_end, the failing client is dropped, and the callback
\* completes its state update: the process goes on, a settlement stores its
\* settlement price as the reference price and moves currentEpoch, an accepted
\* tick is the current price.
C11_BroadcastIsolation ==
    [][\A f \in FaultClients :
          SendThrows(f)
            => /\ \A i \in DOMAIN sent' : clients \ {f} \subseteq sent'[i].to
               /\ "epoch_end" \in MessageTypes(sent') => "epoch_start" \in MessageTypes(sent')
               /\ f \notin clients'
               /\ ~crashed'
               /\ produced' # produced
                     => /\ lastEpochEndPrice' = Last(produced').endPrice
                        /\ currentEpoch' = now \div EPOCH_DURATION
               /\ Len(priceHistory') > Len(priceHistory)
                     => currentPrice' = Last(priceHistory').price]_vars

----------------------------------------------------------------------------
(* The epoch clock's functions *)

Counts == 0..MaxCount

\* the multiples of EPOCH_DURATION from the oldest retained price point (from
\* now when there is none) up to now, in increasing order
RECURSIVE BoundariesUpTo(_, _)
BoundariesUpTo(from, upTo) ==
    IF upTo < from THEN <<>>
    ELSE Append(BoundariesUpTo(from, upTo - EPOCH_DURATION), upTo)

PastPart(history) ==
    BoundariesUpTo(IF history = <<>> THEN now ELSE history[1].timestamp,
                   (now \div EPOCH_DURATION) * EPOCH_DURATION)

\* the entries of a list that are greater than now
FuturePart(list) == SelectSeq(list, LAMBDA t : t > now)

\* C22 as stated: getEpochTimestamps(count) is the past epoch ends covered by
\* the retained price history followed by exactly count epoch ends greater
\* than now.
C22_ExactlyCountFutureEnds ==
    \A count \in Counts :
        LET list == GetEpochTimestamps(priceHistory, count)
        IN  /\ list = PastPart(priceHistory) \o FuturePart(list)
            /\ Len(FuturePart(list)) = count

\* C22 amended: getEpochTimestamps(count) is the epoch ends from the oldest
\* retained price point up to now, followed by count + 1 epoch ends greater
\* than now: the end of the current epoch and of the count epochs after it;
\* the messages carry the list for count = 10.
C22_CurrentAndNextCountEnds ==
    /\ \A count \in Counts :
           LET list == GetEpochTimestamps(priceHistory, count)
           IN  /\ list = PastPart(priceHistory) \o FuturePart(list)
               /\ Len(FuturePart(list)) = count + 1
               /\ FuturePart(list)[1] = now + GetTimeRemaining
    /\ \A i \in DOMAIN sent :
           sent[i].m.type \in {"epoch_end", "epoch_start"}
               => /\ sent[i].m.epochTimestamps = GetEpochTimestamps(priceHistory, 10)
                  /\ Len(FuturePart(sent[i].m.epochTimestamps)) = 11

\* C22 witness: an epoch_end carries three past epoch ends and eleven future
\* ones.
C22_Witness ==
    /\ sent # <<>>
    /\ sent[1].m.type = "epoch_end"
    /\ Len(PastPart(priceHistory)) = 3
    /\ Len(sent[1].m.epochTimestamps) = 14

\* C23: the time remaining is EPOCH_DURATION - (now mod EPOCH_DURATION): it
\* lies in 1..EPOCH_DURATION, now plus it is a multiple of EPOCH_DURATION, it
\* is the distance to the end of the wall-clock epoch whatever the engine's
\* index is, and the messages carry that value.
C23_TimeRemaining ==
    /\ GetTimeRemaining = EPOCH_DURATION - (now % EPOCH_DURATION)
    /\ GetTimeRemaining \in 1..EPOCH_DURATION
    /\ (now + GetTimeRemaining) % EPOCH_DURATION = 0
    /\ now + GetTimeRemaining = (GetEpochNumber + 1) * EPOCH_DURATION
    /\ \A i \in DOMAIN sent :
           sent[i].m.type \in {"time", "price", "epoch_start"}
               => sent[i].m.timeRemaining = GetTimeRemaining

\* C23 witness: on an epoch boundary a time message carries a whole epoch,
\* sent by an engine whose index lags the wall clock.
C23_Witness ==
    /\ now % EPOCH_DURATION = 0
    /\ now > 0
    /\ Len(sent) = 1
    /\ sent[1].m.type = "time"
    /\ sent[1].m.timeRemaining = EPOCH_DURATION
    /\ currentEpoch < GetEpochNumber

\* C28: every list of getEpochTimestamps is strictly increasing in steps of
\* EPOCH_DURATION, holds multiples of EPOCH_DURATION only, and contains the
\* end of the epoch that contains now.
C28_EpochTimestampsGrid ==
    \A count \in Counts :
        LET list == GetEpochTimestamps(priceHistory, count)
        IN  /\ \A i \in 1..(Len(list) - 1) : list[i + 1] = list[i] + EPOCH_DURATION
            /\ \A i \in DOMAIN list : list[i] % EPOCH_DURATION = 0
            /\ \E i \in DOMAIN list : list[i] = (GetEpochNumber + 1) * EPOCH_DURATION

\* C28 witness: with a price point of the first epoch retained and the clock
\* in the fourth, the list for count 0 is the four epoch ends up to the
\* current one.
C28_Witness ==
    /\ priceHistory # <<>>
    /\ priceHistory[1].timestamp < EPOCH_DURATION
    /\ priceHistory[1].timestamp > 0
    /\ GetEpochNumber = 3
    /\ GetEpochTimestamps(priceHistory, 0) = <<10000, 20000, 30000, 40000>>

----------------------------------------------------------------------------
(* Settlement and tick as state updates *)

\* C26: a settlement with price p leaves the reference price p, no last tick
\* price, and the price current at that moment as the new epoch's start
\* price; the current price itself is not touched.
C26_StateAfterSettlement ==
    [][produced' # produced =>
          /\ Len(produced') = Len(produced) + 1
          /\ lastEpochEndPrice' = Last(produced').endPrice
          /\ lastTickPriceInEpoch' = Null
          /\ epochStartPrice' = currentPrice'
          /\ currentPrice' = currentPrice]_vars

\* C26 witness: an epoch that started at one price was just settled at
\* another, which is now reference price and start price of the next epoch.
C26_Witness ==
    /\ produced # <<>>
    /\ Last(produced).timestamp = now
    /\ "epoch_end" \in MessageTypes(sent)
    /\ Last(produced).startPrice # Last(produced).endPrice
    /\ lastEpochEndPrice = Last(produced).endPrice
    /\ epochStartPrice = currentPrice
    /\ lastTickPriceInEpoch = Null

\* C27: an accepted tick p becomes the last tick price and the current price,
\* becomes the epoch's start price only when there was none, appends exactly
\* one price point tagged with currentEpoch, is broadcast as exactly one
\* price message, and rolls nothing over: currentEpoch, reference price and
\* the EpochResults stay as they were.
C27_AcceptedTickFrame ==
    [][\A msg \in PythMessages :
          OnPythMessage(msg) /\ IsTick(msg) =>
              LET p == NormalizedPrice(msg)
                  point == [price |-> p, timestamp |-> now, epoch |-> currentEpoch,
                            isEpochEnd |-> FALSE, epochResult |-> <<>>]
              IN  /\ lastTickPriceInEpoch' = p
                  /\ currentPrice' = p
                  /\ epochStartPrice' = IF epochStartPrice = Null THEN p ELSE epochStartPrice
                  /\ priceHistory' = LastN(Append(priceHistory, point), MAX_PRICE_HISTORY)
                  /\ Len(sent') = 1
                  /\ sent'[1].m.type = "price"
                  /\ sent'[1].m.epoch = currentEpoch
                  /\ sent'[1].to = clients
                  /\ UNCHANGED <<currentEpoch, lastEpochEndPrice, epochHistory, produced,
                                 settledIn>>]_vars

\* C27 witness: the second tick of an epoch was just accepted while a
\* rollover was due: the start price is still the first tick's, the epoch
\* index is behind the wall clock and stays there.
C27_Witness ==
    /\ Len(priceHistory) = 2
    /\ Last(priceHistory).timestamp = now
    /\ Len(sent) = 1
    /\ sent[1].m.type = "price"
    /\ currentPrice = Last(priceHistory).price
    /\ epochStartPrice # currentPrice
    /\ epochStartPrice = priceHistory[1].price
    /\ priceHistory[1].epoch = currentEpoch
    /\ currentEpoch < GetEpochNumber

\* C29: in every state between two callbacks the reference price is the end
\* price of the EpochResult produced last, it is null exactly when none was
\* produced, and every stored EpochResult is of an epoch before
\* currentEpoch.
C29_ReferenceIsLastEndPrice ==
    /\ produced # <<>> => lastEpochEndPrice = Last(produced).endPrice
    /\ (lastEpochEndPrice = Null) <=> (produced = <<>>)
    /\ epochHistory = LastN(produced, MAX_EPOCH_HISTORY)
    /\ \A i \in DOMAIN epochHistory : epochHistory[i].epoch < currentEpoch

\* C29 witness: two EpochResults with different end prices are stored and
\* the reference price is the later one's.
C29_Witness ==
    /\ Len(epochHistory) = 2
    /\ epochHistory[1].endPrice # epochHistory[2].endPrice
    /\ lastEpochEndPrice = epochHistory[2].endPrice
    /\ epochHistory[2].epoch < currentEpoch

\* C30: the epoch indices of the EpochResults strictly increase in the order
\* of production, so no index is settled twice.
C30_EpochIndicesIncrease ==
    \A i, j \in DOMAIN produced : i < j => produced[i].epoch < produced[j].epoch

\* C30 witness: two settlements, the first late by a stall so that an index
\* was skipped, with a tick of the later epoch in between.
C30_Witness ==
    /\ Len(produced) = 2
    /\ produced[2].epoch > produced[1].epoch + 1
    /\ Len(priceHistory) = 2
    /\ priceHistory[2].epoch = produced[2].epoch

----------------------------------------------------------------------------
(* Subscribers and HTTP requests *)

\* C25: a subscriber joining, a subscriber disconnecting and a request to
\* the HTTP endpoint leave the engine as it is: currentEpoch, current price,
\* last tick price, epoch start price, reference price, price history and
\* EpochResult history do not change, and no EpochResult is produced.
C25_SessionsReadOnly ==
    [][(\/ \E c \in ClientIds : OnConnection(c) \/ OnClientClose(c)
        \/ \E url \in Urls : OnHttpRequest(url)
        \/ "init" \in MessageTypes(sent')
        \/ "http" \in MessageTypes(sent')
        \/ clients' # clients)
           => /\ UNCHANGED <<currentEpoch, currentPrice, lastTickPriceInEpoch,
                             epochStartPrice, lastEpochEndPrice, priceHistory,
                             epochHistory>>
              /\ UNCHANGED <<lastPriceTimestamp, produced, settledIn>>]_vars

\* C25 witness: a health request was answered while a rollover was due, a
\* subscriber was connected and an EpochResult was stored; the answer shows
\* the index that is still behind the clock.
C25_Witness ==
    /\ Len(sent) = 1
    /\ sent[1].m.type = "http"
    /\ sent[1].m.status = 200
    /\ sent[1].m.body.currentEpoch = currentEpoch
    /\ sent[1].m.body.clients = 1
    /\ currentEpoch < GetEpochNumber
    /\ epochHistory # <<>>
    /\ lastTickPriceInEpoch # Null

----------------------------------------------------------------------------
(* The two histories *)

\* a price history without the epoch-end marks, which a settlement writes
\* into the last point in place
Unmarked(history) ==
    [i \in DOMAIN history |-> [price |-> history[i].price,
                               timestamp |-> history[i].timestamp,
                               epoch |-> history[i].epoch]]

\* C21: the price history holds at most MAX_PRICE_HISTORY points and the
\* EpochResult history at most MAX_EPOCH_HISTORY results; the EpochResult
\* history is the most recent results in the order of production, and a step
\* that changes the price history appends one point at the end, dropping the
\* oldest point when the cap is exceeded and keeping all others in place.
C21_BoundedFifoHistories ==
    /\ [](/\ Len(priceHistory) <= MAX_PRICE_HISTORY
          /\ Len(epochHistory) <= MAX_EPOCH_HISTORY
          /\ epochHistory = LastN(produced, MAX_EPOCH_HISTORY))
    /\ [][LET old == Unmarked(priceHistory)
              new == Unmarked(priceHistory')
          IN  \/ new = old
              \/ /\ new = LastN(Append(old, Last(new)), MAX_PRICE_HISTORY)
                 /\ Last(new).timestamp = now]_vars

\* C21 witness: both histories are full and have lost their oldest entry:
\* more results were produced than are stored, and the oldest stored point
\* is not the first one taken in.
C21_Witness ==
    /\ Len(priceHistory) = MAX_PRICE_HISTORY
    /\ priceHistory[1].timestamp > PastTickTime(1)
    /\ Last(priceHistory).timestamp > LongRunStart
    /\ Len(epochHistory) = MAX_EPOCH_HISTORY
    /\ Len(produced) > MAX_EPOCH_HISTORY
    /\ epochHistory[1].epoch > 0

----------------------------------------------------------------------------
(* Bets *)

\* C24: a bet placed during round N is resolved by the epoch_end of round
\* N + 1, whose outcome compares the end price of round N + 1 with the
\* reference price captured at the end of round N; it is not resolved by the
\* epoch_end of round N.
C24_ResolvedByNextRound ==
    \A i \in DOMAIN resolutions : resolutions[i].epoch = resolutions[i].betRound + 1

----------------------------------------------------------------------------
(* Ticks and settlements *)

\* C31: every PricePoint and every price message carries the epoch
\* floor(observedAt / EPOCH_DURATION), so that the tick marked as the
\* settlement price of epoch e was observed before (e + 1) * EPOCH_DURATION;
\* also for a tick that arrives between a boundary and the next run of the
\* epoch timer, and for a tick that arrives before any settlement.
C31_EpochTagIsObservedEpoch ==
    /\ \A i \in DOMAIN priceHistory :
           priceHistory[i].epoch = priceHistory[i].timestamp \div EPOCH_DURATION
    /\ \A i \in DOMAIN sent :
           sent[i].m.type = "price"
               => sent[i].m.epoch = sent[i].m.timestamp \div EPOCH_DURATION
    /\ \A i \in DOMAIN priceHistory :
           priceHistory[i].isEpochEnd
               => priceHistory[i].timestamp
                      < (priceHistory[i].epochResult[1].epoch + 1) * EPOCH_DURATION

\* C32: whenever lastTickPriceInEpoch is not null it equals currentPrice, and
\* every EpochResult is settled at the value currentPrice has at the moment
\* of the settlement.
C32_SettlementPriceIsCurrentPrice ==
    /\ [](lastTickPriceInEpoch # Null => lastTickPriceInEpoch = currentPrice)
    /\ [][produced' # produced => Last(produced').endPrice = currentPrice]_vars

\* C32 witness: an epoch with two ticks of different prices was settled at
\* its last tick, which is not the price the epoch started with.
C32_Witness ==
    /\ produced # <<>>
    /\ Last(produced).endPrice # Last(produced).startPrice
    /\ Last(produced).endPrice = currentPrice
    /\ \E i \in DOMAIN priceHistory :
           /\ priceHistory[i].isEpochEnd
           /\ priceHistory[i].epochResult = <<Last(produced)>>
           /\ priceHistory[i].price = Last(produced).endPrice

\* C33: every EpochResult after the first has as startPrice the endPrice of
\* the EpochResult produced immediately before it.
C33_StartPriceIsPreviousEndPrice ==
    \A i \in 2..Len(produced) : produced[i].startPrice = produced[i - 1].endPrice

\* C33 witness: the second result starts at the first result's endPrice
\* although the first tick tagged with its epoch had another price.
C33_Witness ==
    /\ Len(produced) >= 2
    /\ produced[2].startPrice = produced[1].endPrice
    /\ \E i \in DOMAIN priceHistory :
           /\ priceHistory[i].epoch = produced[2].epoch
           /\ \A j \in 1..(i - 1) : priceHistory[j].epoch # produced[2].epoch
           /\ priceHistory[i].price # produced[2].startPrice

----------------------------------------------------------------------------
(* Upstream adapter *)

\* the upstream sockets that exist: created and not yet closed
LiveSockets == {s \in SocketIds : socks[s] # "closed"}

\* C35: at any time at most one upstream socket exists and at most one
\* reconnect timer is pending, and a reconnect timer is pending only while no
\* upstream socket exists; under every interleaving of the open, error, close
\* and timer events.
C35_UpstreamExclusion ==
    /\ Cardinality(LiveSockets) <= 1
    /\ reconnectTimeouts <= 1
    /\ reconnectTimeouts > 0 => LiveSockets = {}

\* C35 witness: the first socket failed and closed, its reconnect timer
\* fired, the second socket opened and closed again, and the timer of that
\* close is pending while no socket exists.
C35_Witness ==
    /\ Len(socks) >= 2
    /\ LiveSockets = {}
    /\ reconnectTimeouts = 1
    /\ pythWs = 0

----------------------------------------------------------------------------
(* Bets: clearing and placing *)

\* C37: every bet that the frame tick clears at an epoch end is resolved by
\* the animation frame of the same transition: showResult becomes true and
\* lastPayout is set, to 0 for a loss and to a positive amount for a win;
\* also when the epoch_end carries the outcome null.
C37_ClearedBetIsResolved ==
    [][(/\ animationFrames # <<>>
        /\ animationFrames' = Tail(animationFrames)
        /\ Head(animationFrames).epochEnd # <<>>
        /\ Head(animationFrames).currentBet # <<>>)
          => /\ gameStore'.showResult
             /\ gameStore'.lastPayout.k = "num"
             /\ gameStore'.lastPayout.v >= 0
             /\ gameStore'.lastPayout.v > 0
                    <=> Head(animationFrames).currentBet[1].direction
                            = Head(animationFrames).epochEnd[1].outcome]_vars

\* the stake of the current bet, 0 without a bet
CurrentStake(store) == IF store.currentBet = <<>> THEN 0 ELSE store.currentBet[1].amount

\* C38: placeBet(direction, amount) with amount >= 0 conserves funds: when
\* it succeeds, the balance plus the stake of the new bet is the balance plus
\* the stake of the replaced bet (0 without one); when the amount exceeds the
\* balance plus the current stake it returns false and leaves the balance and
\* the bet as they were; and the balance is never negative.
C38_PlaceBetConservesFunds ==
    /\ [](userStore.balance >= 0)
    /\ [][\A direction \in Directions, amount \in Amounts :
            PlaceBet(direction, amount)
              => IF amount > userStore.balance + CurrentStake(userStore)
                 THEN /\ ~PlaceBetRun(direction, amount).ok
                      /\ userStore' = userStore
                 ELSE /\ PlaceBetRun(direction, amount).ok
                      /\ userStore'.currentBet
                             = <<[direction |-> direction, amount |-> amount]>>
                      /\ userStore'.balance + amount
                             = userStore.balance + CurrentStake(userStore)]_vars

\* C38 witness: after several bets the balance is 5 with a bet of 10 placed:
\* a bet of 25 is refused, and replacing the bet by one of 5 refunds the 10.
C38_Witness ==
    /\ userStore.currentBet # <<>>
    /\ userStore.currentBet[1].amount = 10
    /\ userStore.balance = 5
    /\ ~PlaceBetRun("up", 25).ok
    /\ PlaceBetRun("down", 5).ok
    /\ PlaceBetRun("down", 5).userStore.balance = 10

----------------------------------------------------------------------------
(* Client teardown *)

\* C36: after the hook's disconnect() has run on unmount, no reconnect timer
\* is pending and no socket is connecting or open, whatever the closed
\* socket's onclose does afterwards; and the onclose of a socket that is not
\* the current one leaves the reference to the newer socket in place.
C36_TeardownIsFinal ==
    /\ [](~hookWs.mounted
             => /\ hookWs.timeouts = {}
                /\ \A s \in HookSocketIds : hookWs.sockets[s] \in {"closing", "closed"})
    /\ [][\A s \in HookSocketIds :
            (/\ hookWs.sockets[s] # "closed"
             /\ hookWs'.sockets[s] = "closed"
             /\ hookWs.wsRef \notin {0, s})
               => hookWs'.wsRef = hookWs.wsRef]_vars

====
